---- MODULE Spec2Model ----
(***************************************************************************)
(* College counselling: a rank-interval table parsed from a flat file, a   *)
(* first-match linear scan over it, two fixed-response strategies, a       *)
(* process-wide instance counter and the driver (main) around them.        *)
(*                                                                         *)
(* Texts (std::string) are sequences of one-character strings, so that     *)
(* find, substr, stoi and operator<< are modelled by what they do.         *)
(***************************************************************************)
EXTENDS Integers, Sequences, FiniteSets

(***************************************************************************)
(* Bounds of the model.                                                    *)
(***************************************************************************)
MaxLineLen == 5
MaxLines == 2
MaxRank == 3
MaxObjects == 2
MaxCalls == 2

(***************************************************************************)
(* Program constants.                                                      *)
(***************************************************************************)
\* the largest int: std::stoi and operator>>(int&) fail beyond it
IntMax == 2147483647

\* std::string::npos, the "not found" result of find (positions are 1-based
\* in the model, so 0 is free to stand for it)
Npos == 0

\* no exception in flight
None == "None"

\* a file that cannot be opened, and one that opens and yields these lines
Missing == [open |-> FALSE]

FileOf(lines) == [open |-> TRUE, lines |-> lines]

(***************************************************************************)
(* Texts.                                                                  *)
(***************************************************************************)
NoCollegeText ==
    <<"N", "o", " ", "c", "o", "l", "l", "e", "g", "e", " ", "a", "l", "l", "o", "c", "a", "t", "e", "d", " ", "f", "o", "r", " ", "y", "o", "u", "r", " ", "r", "a", "n", "k", ".">>

RoundTwoText ==
    <<"n", "o", "t", " ", "e", "l", "i", "g", "i", "b", "l", "e", " ", "f", "o", "r", " ", "r", "o", "u", "n", "d", " ", "t", "w", "o">>

RoundThreeText ==
    <<"n", "o", "t", " ", "e", "l", "i", "g", "i", "b", "l", "e", " ", "f", "o", "r", " ", "r", "o", "u", "n", "d", " ", "t", "h", "r", "e", "e">>

ResultPrefix ==
    <<"R", "e", "s", "u", "l", "t", ":", " ">>

TotalPrefix ==
    <<"T", "o", "t", "a", "l", " ", "i", "n", "s", "t", "a", "n", "c", "e", "s", " ", "o", "f", " ", "R", "a", "n", "k", "I", "n", "t", "e", "r", "v", "a", "l", "S", "t", "r", "a", "t", "e", "g", "y", ":", " ">>

NamePrompt ==
    <<"E", "n", "t", "e", "r", " ", "y", "o", "u", "r", " ", "n", "a", "m", "e", ":", " ">>

RankPrompt ==
    <<"E", "n", "t", "e", "r", " ", "y", "o", "u", "r", " ", "r", "a", "n", "k", ":", " ">>

\* std::endl
Endl == <<"\n">>

\* the what() texts of the exceptions the program throws
CannotOpenDataFile == "Error: Cannot open data file."
InvalidDataFormat == "Error: Invalid data format in the data file."
InvalidRankRange == "Error: Invalid rank range in the data file."
CannotOpenPathFile == "Error: Cannot open data.txt"
CannotOpenProjectFile == "Error: Cannot open project.txt"
InvalidRankInput == "Error: Invalid input for rank. Please enter a valid integer."
\* what() of the std::invalid_argument / std::out_of_range thrown by std::stoi
StoiWhat == "stoi"

Text == Seq(STRING)

CollegeDataSet == [rankStart : Int, rankEnd : Int, college : Text]

DigitChars == <<"0", "1", "2", "3", "4", "5", "6", "7", "8", "9">>

IsDigit(c) == \E d \in 1..10 : DigitChars[d] = c

DigitVal(c) == (CHOOSE d \in 1..10 : DigitChars[d] = c) - 1

\* the vertical tab, which has no escape in a TLA+ string
VTab == ""

\* isspace in the "C" locale
IsSpace(c) == c \in {" ", "\t", "\n", VTab, "\f", "\r"}

\* std::string::find(char): the first position holding c, or npos
FindFrom[s \in Text, c \in STRING, i \in Nat] ==
    IF i > Len(s) THEN Npos
    ELSE IF s[i] = c THEN i
    ELSE FindFrom[s, c, i + 1]

Find(s, c) == FindFrom[s, c, 1]

\* the text left after its leading white space is skipped
SkipSpace[s \in Text] ==
    IF s # <<>> /\ IsSpace(Head(s)) THEN SkipSpace[Tail(s)] ELSE s

\* the number of leading decimal digits of s
DigitRun[s \in Text] ==
    IF s # <<>> /\ IsDigit(Head(s)) THEN 1 + DigitRun[Tail(s)] ELSE 0

\* the value of the digits ds added to acc, or -1 once it exceeds limit
Accumulate[ds \in Text, acc \in Int, limit \in Int] ==
    IF ds = <<>> THEN acc
    ELSE IF acc > (limit - DigitVal(Head(ds))) \div 10 THEN -1
    ELSE Accumulate[Tail(ds), acc * 10 + DigitVal(Head(ds)), limit]

\* num_get's conversion to int (base 10), which operator>>(int&) calls once
\* its sentry has skipped the white space and found the stream good: an
\* optional sign is consumed, then the digits that follow it; what comes
\* after them is left unread.  With no digit the conversion fails and
\* stores 0; with a value that does not fit an int it fails and stores the
\* limit of int on that side.  val is the value stored, rest the unread
\* text.  strtol, behind std::stoi, converts the same texts to the same
\* values.
ScanInt(s) ==
    LET signed == s # <<>> /\ Head(s) \in {"+", "-"}
        neg == s # <<>> /\ Head(s) = "-"
        body == IF signed THEN Tail(s) ELSE s
        n == DigitRun[body]
        digits == SubSeq(body, 1, n)
        rest == SubSeq(body, n + 1, Len(body))
        \* |INT_MIN| is one more than INT_MAX; it is accumulated up to
        \* INT_MAX and the last unit is taken off after negation
        mag == Accumulate[digits, 0, IntMax]
        minMag == IF neg /\ mag = -1
                  THEN Accumulate[SubSeq(digits, 1, n - 1), 0, IntMax \div 10]
                  ELSE -1
        isMin == /\ neg /\ mag = -1 /\ n > 0 /\ minMag = IntMax \div 10
                 /\ DigitVal(digits[n]) = (IntMax % 10) + 1
    IN  IF n = 0 THEN [ok |-> FALSE, val |-> 0, rest |-> body]
        ELSE IF isMin THEN [ok |-> TRUE, val |-> (-IntMax) - 1, rest |-> rest]
        ELSE IF mag = -1
        THEN [ok |-> FALSE, val |-> IF neg THEN (-IntMax) - 1 ELSE IntMax,
              rest |-> rest]
        ELSE [ok |-> TRUE, val |-> IF neg THEN -mag ELSE mag, rest |-> rest]

\* mutant: the whole text has to be the integer
StoiWhole(s) ==
    LET r == ScanInt(SkipSpace[s])
    IN  IF r.ok /\ r.rest = <<>> THEN [ok |-> TRUE, val |-> r.val]
        ELSE [ok |-> FALSE]

\* std::stoi(text) (strtol, base 10): leading white space is skipped, an
\* optional sign and the digits after it are converted, trailing text is
\* ignored; it throws (ok = FALSE, no value) when there is no digit to
\* convert or the value is out of the range of int
Stoi(s) ==
    LET r == ScanInt(SkipSpace[s])
    IN  IF r.ok THEN [ok |-> TRUE, val |-> r.val] ELSE [ok |-> FALSE]

(***************************************************************************)
(* RankIntervalStrategy::loadCollegesData.                                 *)
(***************************************************************************)
CollegeData(rankStart, rankEnd, college) ==
    [rankStart |-> rankStart, rankEnd |-> rankEnd, college |-> college]

Thrown(what) == [ok |-> FALSE, what |-> what]

\* the body of the while loop for one line: the record to push back, or the
\* exception thrown
ParseLine(line) ==
    LET colonPos == Find(line, ":")
        rankRange == SubSeq(line, 1, colonPos - 1)
        college == SubSeq(line, colonPos + 1, Len(line))
        hyphenPos == Find(rankRange, "-")
        rankStart == Stoi(SubSeq(rankRange, 1, hyphenPos - 1))
        rankEnd == Stoi(SubSeq(rankRange, hyphenPos + 1, Len(rankRange)))
    IN  IF colonPos = Npos THEN Thrown(InvalidDataFormat)
        ELSE IF hyphenPos = Npos THEN Thrown(InvalidRankRange)
        ELSE IF ~rankStart.ok \/ ~rankEnd.ok THEN Thrown(StoiWhat)
        ELSE [ok |-> TRUE,
              rec |-> CollegeData(rankStart.val, rankEnd.val, college)]

\* the while loop over the rest of the file, collegesData being the records
\* pushed back so far
LoadLines[lines \in Seq(Text), collegesData \in Seq(CollegeDataSet)] ==
    IF lines = <<>> THEN [ok |-> TRUE, collegesData |-> collegesData]
    ELSE LET p == ParseLine(Head(lines))
         IN  IF ~p.ok THEN p
             ELSE LoadLines[Tail(lines), Append(collegesData, p.rec)]

\* loadCollegesData on the file `content`: it throws when the file cannot be
\* opened, else loops over the lines getline yields
LoadCollegesData(content) ==
    IF ~content.open THEN Thrown(CannotOpenDataFile)
    ELSE LoadLines[content.lines, <<>>]

(***************************************************************************)
(* The strategies.                                                         *)
(***************************************************************************)
\* RankIntervalStrategy::allocateCollege over the records from position i on
ScanFrom[collegesData \in Seq(CollegeDataSet), userRank \in Int, i \in Nat] ==
    IF i > Len(collegesData) THEN NoCollegeText
    ELSE IF userRank >= collegesData[i].rankStart
            /\ userRank <= collegesData[i].rankEnd
         THEN collegesData[i].college
    ELSE ScanFrom[collegesData, userRank, i + 1]

\* mutant: the comparison with rankEnd is strict
ScanFromStrict[collegesData \in Seq(CollegeDataSet), userRank \in Int, i \in Nat] ==
    IF i > Len(collegesData) THEN NoCollegeText
    ELSE IF userRank >= collegesData[i].rankStart
            /\ userRank < collegesData[i].rankEnd
         THEN collegesData[i].college
    ELSE ScanFromStrict[collegesData, userRank, i + 1]

RankAllocateCollegeStrict(collegesData, userRank) ==
    ScanFromStrict[collegesData, userRank, 1]

\* mutant: the scan does not return at the first match, the last one wins
ScanLast[collegesData \in Seq(CollegeDataSet), userRank \in Int, i \in Int] ==
    IF i < 1 THEN NoCollegeText
    ELSE IF userRank >= collegesData[i].rankStart
            /\ userRank <= collegesData[i].rankEnd
         THEN collegesData[i].college
    ELSE ScanLast[collegesData, userRank, i - 1]

RankAllocateCollegeLast(collegesData, userRank) ==
    ScanLast[collegesData, userRank, Len(collegesData)]

\* mutant: a record whose start exceeds its end is read the other way round
ScanEitherWay[collegesData \in Seq(CollegeDataSet), userRank \in Int, i \in Nat] ==
    IF i > Len(collegesData) THEN NoCollegeText
    ELSE IF \/ /\ userRank >= collegesData[i].rankStart
               /\ userRank <= collegesData[i].rankEnd
            \/ /\ userRank >= collegesData[i].rankEnd
               /\ userRank <= collegesData[i].rankStart
         THEN collegesData[i].college
    ELSE ScanEitherWay[collegesData, userRank, i + 1]

RankAllocateCollegeEitherWay(collegesData, userRank) ==
    ScanEitherWay[collegesData, userRank, 1]

\* RankIntervalStrategy::allocateCollege: the scan from the first record
RankAllocateCollege(collegesData, userRank) == ScanFrom[collegesData, userRank, 1]

\* mutant: the second strategy looks at the rank
AnotherAllocateCollegeByRank(userRank) ==
    IF userRank <= 1 THEN <<"e", "l", "i", "g", "i", "b", "l", "e">>
    ELSE RoundTwoText

\* AnotherStrategy::allocateCollege and YetAnotherStrategy::allocateCollege
AnotherAllocateCollege(userRank) == RoundTwoText

YetAnotherAllocateCollege(userRank) == RoundThreeText


(***************************************************************************)
(* State.                                                                  *)
(***************************************************************************)
VARIABLES
    pc,               \* position of main; "api" for a client of the classes,
                      \* "parse"/"parsed" for the parser alone
    fileSystem,       \* the files by name: what opening each name yields
    cin,              \* std::cin: the unread text and the fail bit
    stdout,           \* the texts written to std::cout, one per statement
    stderr,           \* the texts written to std::cerr
    exception,        \* what() of the exception in flight, or None
    projectFilePath,  \* main's local
    userName,         \* main's local
    userRank,         \* main's local
    objects,          \* the RankIntervalStrategy objects constructed so far
    loadedFrom,       \* history: for each object, the lines loadCollegesData
                      \* read to build the table the object holds now
    totalInstances,   \* RankIntervalStrategy::totalInstances
    application,      \* the CollegeApplication in use
    lastCtor,         \* history: the outcome of the RankIntervalStrategy
                      \* constructor main called, None before the call
    lastCall,         \* the latest allocateCollege call of a client: the
                      \* strategy, the rank, the text returned, and the
                      \* table and lines of the strategy at the call
    nCalls,           \* the number of allocateCollege calls of a client
    exitStatus,       \* the value main returned, -1 while it runs
    line,             \* the line given to the parser alone
    parsed            \* what the parser made of it

vars == <<pc, fileSystem, cin, stdout, stderr, exception, projectFilePath,
          userName, userRank, objects, loadedFrom, totalInstances, application,
          lastCtor, lastCall, nCalls, exitStatus, line, parsed>>

(***************************************************************************)
(* Inputs.                                                                 *)
(***************************************************************************)
\* the name main opens first (line 158)
PathFile == <<"d", "a", "t", "a", ".", "t", "x", "t">>

\* the name the default constructor passes on (line 39)
DefaultDataFile ==
    <<"d", "e", "f", "a", "u", "l", "t", "_", "d", "a", "t", "a", ".", "t", "x", "t">>

\* names a data.txt or a client may give
DatasetPath == <<"p", "r", "o", "j", "e", "c", "t", ".", "t", "x", "t">>

OtherPath == <<"o", "t", "h", "e", "r", ".", "t", "x", "t">>

\* the working directory: it opens, and reading it yields no line
Dot == <<".">>

Paths == {PathFile, DefaultDataFile, DatasetPath, OtherPath, Dot}

\* operator<<(int): the decimal text of n
NatText[n \in Nat] ==
    IF n < 10 THEN <<DigitChars[n + 1]>>
    ELSE NatText[n \div 10] \o <<DigitChars[(n % 10) + 1]>>

IntText(n) == IF n < 0 THEN <<"-">> \o NatText[-n] ELSE NatText[n]

\* the dataset line "<rankStart>-<rankEnd>:<college>"
MkLine(a, b, label) == IntText(a) \o <<"-">> \o IntText(b) \o <<":">> \o label

Ranks == 0..MaxRank

Labels == {<<"A">>, <<"B">>, <<"C">>, NoCollegeText}

\* the lines the datasets are made of: overlapping ranges, a range whose
\* start exceeds its end, a label equal to the "no college" text, and a line
\* without ':'
DatasetLines ==
    { MkLine(1, 2, <<"A">>), MkLine(2, 3, <<"B">>), MkLine(3, 1, <<"C">>),
      MkLine(2, 2, NoCollegeText), <<"1", "-", "3">> }

\* the two of them whose ranges overlap
OverlappingLines == {MkLine(1, 2, <<"A">>), MkLine(2, 3, <<"B">>)}

SeqsUpTo(S, n) == UNION {[1..k -> S] : k \in 0..n}

DatasetFiles == {Missing} \cup {FileOf(ls) : ls \in SeqsUpTo(DatasetLines, MaxLines)}

\* a dataset whose first line begins with a vertical tab
VTabFile == FileOf(<<<<VTab>> \o MkLine(1, 2, <<"A">>)>>)

Directory == FileOf(<<>>)

\* the file system with these files under the four names, and the directory
FileSystemOf(pathFile, dataset, other, default) ==
    [p \in Paths |->
        IF p = PathFile THEN pathFile
        ELSE IF p = DatasetPath THEN dataset
        ELSE IF p = OtherPath THEN other
        ELSE IF p = DefaultDataFile THEN default
        ELSE Directory]

\* what main may find: no data.txt, an empty one, one that names the
\* dataset, and then every dataset; a data.txt that names another file,
\* there or not, the directory, or itself
MainFileSystems ==
    {FileSystemOf(pf, ds, Missing, Missing) :
        pf \in {Missing, FileOf(<<>>), FileOf(<<DatasetPath, OtherPath>>)},
        ds \in DatasetFiles \cup {VTabFile}}
    \cup
    {FileSystemOf(FileOf(<<p>>), FileOf(<<MkLine(1, 2, <<"A">>)>>), other, Missing) :
        p \in {OtherPath, Dot, PathFile},
        other \in {Missing, FileOf(<<MkLine(2, 3, <<"B">>)>>)}}

\* what a client may find: no dataset; every dataset of overlapping
\* lines; datasets with a range whose start exceeds its end, with a label
\* equal to the "no college" text, with a second line without ':'; and
\* beside a dataset another file and a default data file
ApiFileSystems ==
    {FileSystemOf(Missing, FileOf(ls), Missing, Missing) :
        ls \in {<<>>} \cup [1..MaxLines -> OverlappingLines]}
    \cup
    {FileSystemOf(Missing, ds, Missing, Missing) :
        ds \in {Missing,
                FileOf(<<MkLine(3, 1, <<"C">>)>>),
                FileOf(<<MkLine(3, 1, <<"C">>), MkLine(1, 2, <<"A">>)>>),
                FileOf(<<MkLine(2, 2, NoCollegeText), MkLine(2, 3, <<"B">>)>>),
                FileOf(<<MkLine(1, 2, <<"A">>), <<"1", "-", "3">>>>)}}
    \cup
    {FileSystemOf(Missing, FileOf(<<MkLine(1, 2, <<"A">>)>>),
                  FileOf(<<MkLine(2, 3, <<"B">>)>>), default) :
        default \in {FileOf(<<MkLine(3, 1, <<"C">>)>>)}}

NameTexts == {<<"A", "l">>, <<" ", "B", " ", "b">>, <<VTab, "A", "l">>}

\* what may be typed for the rank: the ranks, texts that are no integer or
\* begin with one, white space, signs without a digit, values beyond int
RankTexts ==
    {IntText(r) : r \in Ranks} \cup
    { <<"a", "b", "c">>, <<"-", "1">>, <<"2", "x">>, <<" ", "3">>,
      <<VTab, "3">>, <<"-", "x">>, <<"+">>,
      <<"9", "9", "9", "9", "9", "9", "9", "9", "9", "9">>,
      <<"-", "2", "1", "4", "7", "4", "8", "3", "6", "4", "9">> }

\* standard input: nothing, a name alone, a name and a rank each on a line,
\* a rank without the newline
StdinInputs ==
    {<<>>, <<"A", "l">> \o Endl, <<"A", "l">> \o Endl \o <<"-">>}
        \cup {<<"A", "l">> \o Endl \o r \o Endl : r \in RankTexts}
        \cup {n \o Endl \o <<"2">> \o Endl : n \in NameTexts}

\* userRank is not initialised (line 188): it holds any int until it is read
IndeterminateInts == {-1, 0}

Alphabet == {"1", "2", "-", ":", "A", " "}

\* lines too long for the exhaustive set: values at and beyond the limits of
\* int, a sign, a tab, a vertical tab, further separators
LongLines ==
    { <<"2", "1", "4", "7", "4", "8", "3", "6", "4", "7", "-", "1", ":", "A">>,
      <<"2", "1", "4", "7", "4", "8", "3", "6", "4", "8", "-", "1", ":", "A">>,
      <<"1", "-", "-", "2", "1", "4", "7", "4", "8", "3", "6", "4", "8", ":", "A">>,
      <<"1", "-", "-", "2", "1", "4", "7", "4", "8", "3", "6", "4", "9", ":", "A">>,
      <<"+", "1", "-", "\t", "2", ":", "A">>,
      <<VTab, "1", "-", VTab, "2", ":", "A">>,
      <<"1", VTab, "-", "2", ":", "A">>,
      <<"1", "-", "2", ":", "A", ":", "B">>,
      <<"1", "-", "2", "-", "3", ":", "A">>,
      <<"1", "-", "2", "-", "3", ":", "A", ":", "B">> }

ParseInputs == SeqsUpTo(Alphabet, MaxLineLen) \cup LongLines

(***************************************************************************)
(* The classes, as a client uses them.  A client constructs up to          *)
(* MaxObjects strategies, from files, by copy and by move, assigns them to *)
(* each other, makes and replaces its application, and calls               *)
(* allocateCollege; its run ends with its MaxCalls-th call.                *)
(***************************************************************************)
\* std::ifstream file(path): what the name yields; a name the file system
\* does not hold (the empty name among them) does not open
OpenFile(path) ==
    IF path \in DOMAIN fileSystem THEN fileSystem[path] ELSE Missing

\* RankIntervalStrategy(dataFile) with the counter at `instances`: the object
\* built and the counter after it, or the exception loadCollegesData threw,
\* which leaves the constructor before totalInstances++
RankIntervalStrategyCtor(dataFile, instances) ==
    LET l == LoadCollegesData(OpenFile(dataFile))
    IN  IF l.ok
        THEN [ok |-> TRUE, object |-> [collegesData |-> l.collegesData],
              totalInstances |-> instances + 1]
        ELSE [ok |-> FALSE, what |-> l.what, totalInstances |-> instances]

\* the delegating constructor RankIntervalStrategy()
RankIntervalStrategyDefaultCtor(instances) ==
    RankIntervalStrategyCtor(DefaultDataFile, instances)

\* the implicit copy constructor and copy assignment of RankIntervalStrategy:
\* the table is copied; no constructor body runs, the counter is not touched
CopyOf(object) == [collegesData |-> object.collegesData]

\* what the implicit move constructor and move assignment leave behind: the
\* vector's storage is taken over, the source holds no record
MovedFrom(object) == [collegesData |-> <<>>]

\* RankIntervalStrategy::getTotalInstances
GetTotalInstances == totalInstances

CollegeApplication(name, rank) ==
    [set |-> TRUE, applicantName |-> name, applicantRank |-> rank]

NoApplication == [set |-> FALSE]

\* what the implicit move constructor and move assignment of
\* CollegeApplication leave behind: the name is taken over, the rank copied
MovedFromApplication(app) == [app EXCEPT !.applicantName = <<>>]

GetApplicantRank(app) == app.applicantRank

\* references to strategies: a RankIntervalStrategy by its position in
\* objects, or one of the two stateless strategies
RankRef(i) == [kind |-> "RankIntervalStrategy", idx |-> i]
AnotherRef == [kind |-> "AnotherStrategy", idx |-> 0]
YetAnotherRef == [kind |-> "YetAnotherStrategy", idx |-> 0]

StrategyRefs ==
    {RankRef(i) : i \in 1..Len(objects)} \cup {AnotherRef, YetAnotherRef}

\* the virtual call strategy.allocateCollege(userRank) on the objects objs
VirtualAllocateCollege(objs, ref, rank) ==
    CASE ref.kind = "RankIntervalStrategy" ->
             RankAllocateCollege(objs[ref.idx].collegesData, rank)
      [] ref.kind = "AnotherStrategy" -> AnotherAllocateCollege(rank)
      [] ref.kind = "YetAnotherStrategy" -> YetAnotherAllocateCollege(rank)

\* CollegeAdmissionSystem::allocateCollege
AdmissionAllocateCollege(objs, ref, app) ==
    VirtualAllocateCollege(objs, ref, GetApplicantRank(app))

\* the lambda getRankAllocation
GetRankAllocation(objs, ref, app) == AdmissionAllocateCollege(objs, ref, app)

\* displayAllocationResult: the text written to std::cout
DisplayAllocationResult(result) == ResultPrefix \o result \o Endl

NoCall == [set |-> FALSE]

\* the table and the lines behind it that a call on ref reads; the stateless
\* strategies have none
TableOf(ref) ==
    IF ref.kind = "RankIntervalStrategy" THEN objects[ref.idx].collegesData
    ELSE <<>>

LinesOf(ref) ==
    IF ref.kind = "RankIntervalStrategy" THEN loadedFrom[ref.idx] ELSE <<>>

\* the record of a call on ref that returned text
CallOf(ref, text) ==
    [set |-> TRUE, strategy |-> ref,
     rank |-> GetApplicantRank(application),
     text |-> text,
     table |-> TableOf(ref),
     lines |-> LinesOf(ref)]

mainVars == <<cin, stdout, stderr, exception, projectFilePath, userName,
              userRank, exitStatus>>

parseVars == <<line, parsed>>

\* a client constructs a RankIntervalStrategy on dataFile
ApiConstruct(dataFile) ==
    /\ pc = "api"
    /\ nCalls < MaxCalls
    /\ Len(objects) < MaxObjects
    /\ \E c \in {RankIntervalStrategyCtor(dataFile, totalInstances)} :
           /\ totalInstances' = c.totalInstances
           /\ objects' = IF c.ok THEN Append(objects, c.object) ELSE objects
           /\ loadedFrom' = IF c.ok
                            THEN Append(loadedFrom, OpenFile(dataFile).lines)
                            ELSE loadedFrom
    /\ UNCHANGED <<pc, fileSystem, application, lastCtor, lastCall, nCalls>>
    /\ UNCHANGED mainVars /\ UNCHANGED parseVars

\* a client constructs a RankIntervalStrategy with the default data file
ApiConstructDefault ==
    /\ pc = "api"
    /\ nCalls < MaxCalls
    /\ Len(objects) < MaxObjects
    /\ \E c \in {RankIntervalStrategyDefaultCtor(totalInstances)} :
           /\ totalInstances' = c.totalInstances
           /\ objects' = IF c.ok THEN Append(objects, c.object) ELSE objects
           /\ loadedFrom' = IF c.ok
                            THEN Append(loadedFrom, OpenFile(DefaultDataFile).lines)
                            ELSE loadedFrom
    /\ UNCHANGED <<pc, fileSystem, application, lastCtor, lastCall, nCalls>>
    /\ UNCHANGED mainVars /\ UNCHANGED parseVars

\* a client copy-constructs a RankIntervalStrategy from object i
ApiCopyConstruct(i) ==
    /\ pc = "api"
    /\ nCalls < MaxCalls
    /\ Len(objects) < MaxObjects
    /\ objects' = Append(objects, CopyOf(objects[i]))
    /\ loadedFrom' = Append(loadedFrom, loadedFrom[i])
    /\ UNCHANGED <<pc, fileSystem, totalInstances, application, lastCtor,
                   lastCall, nCalls>>
    /\ UNCHANGED mainVars /\ UNCHANGED parseVars

\* a client move-constructs a RankIntervalStrategy from object i
ApiMoveConstruct(i) ==
    /\ pc = "api"
    /\ nCalls < MaxCalls
    /\ Len(objects) < MaxObjects
    /\ objects' = Append([objects EXCEPT ![i] = MovedFrom(@)], CopyOf(objects[i]))
    /\ loadedFrom' = Append([loadedFrom EXCEPT ![i] = <<>>], loadedFrom[i])
    /\ UNCHANGED <<pc, fileSystem, totalInstances, application, lastCtor,
                   lastCall, nCalls>>
    /\ UNCHANGED mainVars /\ UNCHANGED parseVars

\* a client assigns object j to object i (objects[i] = objects[j]); with
\* i = j nothing changes
ApiCopyAssign(i, j) ==
    /\ pc = "api"
    /\ nCalls < MaxCalls
    /\ objects' = [objects EXCEPT ![i] = CopyOf(objects[j])]
    /\ loadedFrom' = [loadedFrom EXCEPT ![i] = loadedFrom[j]]
    /\ UNCHANGED <<pc, fileSystem, totalInstances, application, lastCtor,
                   lastCall, nCalls>>
    /\ UNCHANGED mainVars /\ UNCHANGED parseVars

\* a client moves object j into object i (objects[i] = std::move(objects[j]));
\* with i = j the object is left as a moved-from one
ApiMoveAssign(i, j) ==
    /\ pc = "api"
    /\ nCalls < MaxCalls
    /\ objects' = IF i = j
                  THEN [objects EXCEPT ![i] = MovedFrom(objects[i])]
                  ELSE [objects EXCEPT ![i] = CopyOf(objects[j]),
                                       ![j] = MovedFrom(objects[j])]
    /\ loadedFrom' = IF i = j
                     THEN [loadedFrom EXCEPT ![i] = <<>>]
                     ELSE [loadedFrom EXCEPT ![i] = loadedFrom[j], ![j] = <<>>]
    /\ UNCHANGED <<pc, fileSystem, totalInstances, application, lastCtor,
                   lastCall, nCalls>>
    /\ UNCHANGED mainVars /\ UNCHANGED parseVars

\* a client makes its CollegeApplication
ApiNewApplication(name, rank) ==
    /\ pc = "api"
    /\ ~application.set
    /\ application' = CollegeApplication(name, rank)
    /\ UNCHANGED <<pc, fileSystem, objects, loadedFrom, totalInstances, lastCtor,
                   lastCall, nCalls>>
    /\ UNCHANGED mainVars /\ UNCHANGED parseVars

\* a client assigns another CollegeApplication to its own (the implicit
\* copy assignment)
ApiAssignApplication(name, rank) ==
    /\ pc = "api"
    /\ nCalls < MaxCalls
    /\ application.set
    /\ application' = CollegeApplication(name, rank)
    /\ UNCHANGED <<pc, fileSystem, objects, loadedFrom, totalInstances, lastCtor,
                   lastCall, nCalls>>
    /\ UNCHANGED mainVars /\ UNCHANGED parseVars

\* a client moves its CollegeApplication into another one (construction or
\* assignment, onto itself included)
ApiMoveApplication ==
    /\ pc = "api"
    /\ nCalls < MaxCalls
    /\ application.set
    /\ application' = MovedFromApplication(application)
    /\ UNCHANGED <<pc, fileSystem, objects, loadedFrom, totalInstances, lastCtor,
                   lastCall, nCalls>>
    /\ UNCHANGED mainVars /\ UNCHANGED parseVars

\* a client calls CollegeAdmissionSystem::allocateCollege(strategy, application)
ApiAllocate(ref) ==
    /\ pc = "api"
    /\ application.set
    /\ nCalls < MaxCalls
    /\ lastCall' = CallOf(ref, AdmissionAllocateCollege(objects, ref, application))
    /\ nCalls' = nCalls + 1
    /\ UNCHANGED <<pc, fileSystem, objects, loadedFrom, totalInstances,
                   application, lastCtor>>
    /\ UNCHANGED mainVars /\ UNCHANGED parseVars

ApiInit ==
    /\ pc = "api"
    /\ fileSystem \in ApiFileSystems
    /\ cin = [buf |-> <<>>, fail |-> FALSE]
    /\ stdout = <<>>
    /\ stderr = <<>>
    /\ exception = None
    /\ projectFilePath = <<>>
    /\ userName = <<>>
    /\ userRank = 0
    /\ objects = <<>>
    /\ loadedFrom = <<>>
    /\ totalInstances = 0
    /\ application = NoApplication
    /\ lastCtor = None
    /\ lastCall = NoCall
    /\ nCalls = 0
    /\ exitStatus = -1
    /\ line = <<>>
    /\ parsed = Thrown(None)

ApiNext ==
    \/ \E dataFile \in Paths : ApiConstruct(dataFile)
    \/ ApiConstructDefault
    \/ \E i \in 1..Len(objects) : ApiCopyConstruct(i)
    \/ \E i \in 1..Len(objects) : ApiMoveConstruct(i)
    \/ \E i, j \in 1..Len(objects) : ApiCopyAssign(i, j)
    \/ \E i, j \in 1..Len(objects) : ApiMoveAssign(i, j)
    \/ \E rank \in Ranks : ApiNewApplication(<<"A", "l">>, rank)
    \/ ApiAssignApplication(<<"B", "o">>, MaxRank)
    \/ ApiMoveApplication
    \/ \E ref \in StrategyRefs : ApiAllocate(ref)

ApiSpec == ApiInit /\ [][ApiNext]_vars

(***************************************************************************)
(* The parser alone, on one line.                                          *)
(***************************************************************************)
ParseStep ==
    /\ pc = "parse"
    /\ parsed' = ParseLine(line)
    /\ pc' = "parsed"
    /\ UNCHANGED <<fileSystem, objects, loadedFrom, totalInstances, application,
                   lastCtor, lastCall, nCalls, line>>
    /\ UNCHANGED mainVars

ParseInit ==
    /\ pc = "parse"
    /\ fileSystem = FileSystemOf(Missing, Missing, Missing, Missing)
    /\ cin = [buf |-> <<>>, fail |-> FALSE]
    /\ stdout = <<>>
    /\ stderr = <<>>
    /\ exception = None
    /\ projectFilePath = <<>>
    /\ userName = <<>>
    /\ userRank = 0
    /\ objects = <<>>
    /\ loadedFrom = <<>>
    /\ totalInstances = 0
    /\ application = NoApplication
    /\ lastCtor = None
    /\ lastCall = NoCall
    /\ nCalls = 0
    /\ exitStatus = -1
    /\ line \in ParseInputs
    /\ parsed = Thrown(None)

ParseNext == ParseStep

ParseSpec == ParseInit /\ [][ParseNext]_vars

(***************************************************************************)
(* main.                                                                   *)
(***************************************************************************)
\* std::getline(file, text) on a freshly opened file into an empty text: its
\* first line, or the text left empty when it has none
FirstLine(file) == IF file.lines = <<>> THEN <<>> ELSE Head(file.lines)

\* std::getline(std::cin >> std::ws, userName), the string holding `old`
\* before: on a stream that has failed nothing is consumed; else white space
\* is skipped; at the end of input the read fails; a read that fails leaves
\* the string as it was; else the text up to the next newline is taken and
\* the newline consumed
GetLineWs(in, old) ==
    LET buf == SkipSpace[in.buf]
        nl == Find(buf, "\n")
    IN  IF in.fail THEN [cin |-> in, text |-> old]
        ELSE IF buf = <<>>
        THEN [cin |-> [buf |-> <<>>, fail |-> TRUE], text |-> old]
        ELSE IF nl = Npos
        THEN [cin |-> [buf |-> <<>>, fail |-> FALSE], text |-> buf]
        ELSE [cin |-> [buf |-> SubSeq(buf, nl + 1, Len(buf)), fail |-> FALSE],
              text |-> SubSeq(buf, 1, nl - 1)]

\* std::cin >> userRank, the int holding `old` before: when the stream has
\* failed, or ends after its white space, the read fails and the int is not
\* touched; else the conversion stores its value, also when it fails
ReadInt(in, old) ==
    LET buf == SkipSpace[in.buf]
        r == ScanInt(buf)
    IN  IF in.fail THEN [cin |-> in, ok |-> FALSE, val |-> old]
        ELSE IF buf = <<>>
        THEN [cin |-> [buf |-> <<>>, fail |-> TRUE], ok |-> FALSE, val |-> old]
        ELSE [cin |-> [buf |-> r.rest, fail |-> ~r.ok], ok |-> r.ok, val |-> r.val]

clientVars == <<lastCall, nCalls>>

\* a throw statement inside the try block: control goes to the handler
Throw(what) ==
    /\ exception' = what
    /\ pc' = "catch"

\* lines 158-165: open data.txt and read the path from it
OpenPathFile ==
    /\ pc = "start"
    /\ IF ~OpenFile(PathFile).open
       THEN /\ Throw(CannotOpenPathFile)
            /\ UNCHANGED projectFilePath
       ELSE /\ projectFilePath' = FirstLine(OpenFile(PathFile))
            /\ pc' = "openProject"
            /\ UNCHANGED exception
    /\ UNCHANGED <<fileSystem, cin, stdout, stderr, userName, userRank,
                   objects, loadedFrom, totalInstances, application, lastCtor,
                   exitStatus>>
    /\ UNCHANGED clientVars /\ UNCHANGED parseVars

\* mutant: the dataset is loaded where it is first opened, the two opens
\* made one
OpenProjectFileAndLoad ==
    /\ pc = "openProject"
    /\ \E c \in {RankIntervalStrategyCtor(projectFilePath, totalInstances)} :
           /\ totalInstances' = c.totalInstances
           /\ IF c.ok
              THEN /\ objects' = Append(objects, c.object)
                   /\ loadedFrom' =
                          Append(loadedFrom, OpenFile(projectFilePath).lines)
                   /\ lastCtor' = "ok"
                   /\ pc' = "promptName"
                   /\ UNCHANGED exception
              ELSE /\ lastCtor' = "failed"
                   /\ Throw(CannotOpenProjectFile)
                   /\ UNCHANGED <<objects, loadedFrom>>
    /\ UNCHANGED <<fileSystem, cin, stdout, stderr, projectFilePath,
                   userName, userRank, application, exitStatus>>
    /\ UNCHANGED clientVars /\ UNCHANGED parseVars

\* lines 168-177: open the file named in data.txt to see that it is there,
\* and close it
OpenProjectFile ==
    /\ pc = "openProject"
    /\ IF ~OpenFile(projectFilePath).open
       THEN Throw(CannotOpenProjectFile)
       ELSE pc' = "promptName" /\ UNCHANGED exception
    /\ UNCHANGED <<fileSystem, cin, stdout, stderr, projectFilePath,
                   userName, userRank, objects, loadedFrom, totalInstances,
                   application, lastCtor, exitStatus>>
    /\ UNCHANGED clientVars /\ UNCHANGED parseVars

\* a prompt written to std::cout; main then waits for the input it asks for
Prompt(at, text, next) ==
    /\ pc = at
    /\ stdout' = Append(stdout, text)
    /\ pc' = next
    /\ UNCHANGED <<fileSystem, cin, stderr, exception, projectFilePath,
                   userName, userRank, objects, loadedFrom, totalInstances,
                   application, lastCtor, exitStatus>>
    /\ UNCHANGED clientVars /\ UNCHANGED parseVars

\* line 182
PromptName == Prompt("promptName", NamePrompt, "readName")

\* lines 183-184: the name is read once the input is there
ReadName ==
    /\ pc = "readName"
    /\ \E g \in {GetLineWs(cin, userName)} :
           /\ cin' = g.cin
           /\ userName' = g.text
    /\ pc' = "promptRank"
    /\ UNCHANGED <<fileSystem, stdout, stderr, exception, projectFilePath,
                   userRank, objects, loadedFrom, totalInstances, application,
                   lastCtor, exitStatus>>
    /\ UNCHANGED clientVars /\ UNCHANGED parseVars

\* line 187
PromptRank == Prompt("promptRank", RankPrompt, "readRank")

\* mutant: a rank that cannot be read is reported and the run goes on
ReadRankGoesOn ==
    /\ pc = "readRank"
    /\ \E r \in {ReadInt(cin, userRank)} :
           /\ cin' = r.cin
           /\ userRank' = r.val
           /\ stderr' = IF r.ok THEN stderr ELSE Append(stderr, InvalidRankInput)
    /\ pc' = "construct"
    /\ UNCHANGED <<fileSystem, stdout, exception, projectFilePath, userName,
                   objects, loadedFrom, totalInstances, application, lastCtor,
                   exitStatus>>
    /\ UNCHANGED clientVars /\ UNCHANGED parseVars

\* lines 188-192: the rank is read once the input is there; throw when that
\* fails
ReadRank ==
    /\ pc = "readRank"
    /\ \E r \in {ReadInt(cin, userRank)} :
           /\ cin' = r.cin
           /\ userRank' = r.val
           /\ IF ~r.ok
              THEN Throw(InvalidRankInput)
              ELSE pc' = "construct" /\ UNCHANGED exception
    /\ UNCHANGED <<fileSystem, stdout, stderr, projectFilePath, userName,
                   objects, loadedFrom, totalInstances, application, lastCtor,
                   exitStatus>>
    /\ UNCHANGED clientVars /\ UNCHANGED parseVars

\* lines 195-198: the three strategies and the application
ConstructStrategies ==
    /\ pc = "construct"
    /\ \E c \in {RankIntervalStrategyCtor(projectFilePath, totalInstances)} :
           /\ totalInstances' = c.totalInstances
           /\ IF c.ok
              THEN /\ objects' = Append(objects, c.object)
                   /\ loadedFrom' =
                          Append(loadedFrom, OpenFile(projectFilePath).lines)
                   /\ lastCtor' = "ok"
                   /\ application' = CollegeApplication(userName, userRank)
                   /\ pc' = "rankResult"
                   /\ UNCHANGED exception
              ELSE /\ lastCtor' = "failed"
                   /\ Throw(c.what)
                   /\ UNCHANGED <<objects, loadedFrom, application>>
    /\ UNCHANGED <<fileSystem, cin, stdout, stderr, projectFilePath,
                   userName, userRank, exitStatus>>
    /\ UNCHANGED clientVars /\ UNCHANGED parseVars

\* one getRankAllocation / displayAllocationResult pair of lines 201-208
Display(at, ref, next) ==
    /\ pc = at
    /\ stdout' = Append(stdout,
           DisplayAllocationResult(GetRankAllocation(objects, ref, application)))
    /\ pc' = next
    /\ UNCHANGED <<fileSystem, cin, stderr, exception, projectFilePath,
                   userName, userRank, objects, loadedFrom, totalInstances,
                   application, lastCtor, exitStatus>>
    /\ UNCHANGED clientVars /\ UNCHANGED parseVars

\* lines 201-202
DisplayRank == Display("rankResult", RankRef(Len(objects)), "anotherResult")

\* lines 204-205
DisplayAnother == Display("anotherResult", AnotherRef, "yetAnotherResult")

\* lines 207-208
DisplayYetAnother == Display("yetAnotherResult", YetAnotherRef, "total")

\* line 211; the try block ends after it
DisplayTotal ==
    /\ pc = "total"
    /\ stdout' = Append(stdout, TotalPrefix \o IntText(GetTotalInstances) \o Endl)
    /\ pc' = "return"
    /\ UNCHANGED <<fileSystem, cin, stderr, exception, projectFilePath,
                   userName, userRank, objects, loadedFrom, totalInstances,
                   application, lastCtor, exitStatus>>
    /\ UNCHANGED clientVars /\ UNCHANGED parseVars

\* lines 212-215: the handler writes what() to std::cerr
Catch ==
    /\ pc = "catch"
    /\ stderr' = Append(stderr, exception)
    /\ exception' = None
    /\ pc' = "return"
    /\ UNCHANGED <<fileSystem, cin, stdout, projectFilePath, userName,
                   userRank, objects, loadedFrom, totalInstances, application,
                   lastCtor, exitStatus>>
    /\ UNCHANGED clientVars /\ UNCHANGED parseVars

\* mutant: a reported failure makes the exit status 1
ReturnFailure ==
    /\ pc = "return"
    /\ exitStatus' = IF stderr # <<>> THEN 1 ELSE 0
    /\ pc' = "exited"
    /\ UNCHANGED <<fileSystem, cin, stdout, stderr, exception,
                   projectFilePath, userName, userRank, objects, loadedFrom,
                   totalInstances, application, lastCtor>>
    /\ UNCHANGED clientVars /\ UNCHANGED parseVars

\* line 217
Return ==
    /\ pc = "return"
    /\ exitStatus' = 0
    /\ pc' = "exited"
    /\ UNCHANGED <<fileSystem, cin, stdout, stderr, exception,
                   projectFilePath, userName, userRank, objects, loadedFrom,
                   totalInstances, application, lastCtor>>
    /\ UNCHANGED clientVars /\ UNCHANGED parseVars

\* the files after the one at path is removed: a regular file no longer
\* opens; the working directory, removed, still opens as "."
Removed(files, path) ==
    IF path = Dot THEN files ELSE [files EXCEPT ![path] = Missing]

\* the world outside: between the open at line 168 and the constructor's
\* own open at line 195, main waiting for the user at lines 184 and 189 with
\* the prompt written, the file it found may be removed
DatasetRemoved ==
    /\ pc \in {"promptName", "readName", "promptRank", "readRank", "construct"}
    /\ OpenFile(projectFilePath).open
    /\ fileSystem' = Removed(fileSystem, projectFilePath)
    /\ UNCHANGED <<pc, objects, loadedFrom, totalInstances, application, lastCtor>>
    /\ UNCHANGED mainVars /\ UNCHANGED clientVars /\ UNCHANGED parseVars

Init ==
    /\ pc = "start"
    /\ fileSystem \in MainFileSystems
    /\ cin \in {[buf |-> b, fail |-> FALSE] : b \in StdinInputs}
    /\ stdout = <<>>
    /\ stderr = <<>>
    /\ exception = None
    /\ projectFilePath = <<>>
    /\ userName = <<>>
    /\ userRank \in IndeterminateInts
    /\ objects = <<>>
    /\ loadedFrom = <<>>
    /\ totalInstances = 0
    /\ application = NoApplication
    /\ lastCtor = None
    /\ lastCall = NoCall
    /\ nCalls = 0
    /\ exitStatus = -1
    /\ line = <<>>
    /\ parsed = Thrown(None)

MainNext ==
    \/ OpenPathFile
    \/ OpenProjectFile
    \/ PromptName
    \/ ReadName
    \/ PromptRank
    \/ ReadRank
    \/ ConstructStrategies
    \/ DisplayRank
    \/ DisplayAnother
    \/ DisplayYetAnother
    \/ DisplayTotal
    \/ Catch
    \/ Return

Next == MainNext \/ DatasetRemoved

Spec == Init /\ [][Next]_vars

\* main is the only thread and never blocks for ever: it always takes its
\* next step; the world owes nothing
LiveSpec == Spec /\ WF_vars(MainNext)

(***************************************************************************)
(* Properties of RankIntervalStrategy::allocateCollege, on the calls a     *)
(* client made (ApiSpec).                                                  *)
(***************************************************************************)
\* rank lies in the record's [rankStart, rankEnd]
Contains(rec, rank) == rec.rankStart <= rank /\ rank <= rec.rankEnd

\* the latest call went to a RankIntervalStrategy
RankCall == lastCall.set /\ lastCall.strategy.kind = "RankIntervalStrategy"

\* the table of the strategy the latest call went to, as it was at the call,
\* and the lines it had been loaded from
CalledTable == lastCall.table

CalledLines == lastCall.lines

\* the positions of the called table whose record contains the rank called with
Matching == {k \in 1..Len(CalledTable) : Contains(CalledTable[k], lastCall.rank)}

FirstOf(S) == CHOOSE k \in S : \A j \in S : k <= j

\* the well-formed lines "a-b:label" over the ranks and labels of the model
WellFormedLines ==
    {[text |-> MkLine(a, b, label), a |-> a, b |-> b, label |-> label] :
        a \in Ranks, b \in Ranks, label \in Labels}

\* C1 as stated: whenever the dataset the strategy was loaded from holds a
\* line "a-b:label" with a <= rank <= b, allocate(rank) returned that line's
\* label.
C1_AsClaimed ==
    RankCall =>
        \A k \in 1..Len(CalledLines), w \in WellFormedLines :
            (CalledLines[k] = w.text
                /\ w.a <= lastCall.rank /\ lastCall.rank <= w.b)
            => lastCall.text = w.label

\* C1 (amended): whenever the dataset the strategy was loaded from holds a
\* line "a-b:label" with a <= rank <= b and no earlier line's range contains
\* the rank, allocate(rank) returned exactly that line's label.
C1_FirstContainingLineLabel ==
    RankCall =>
        \A k \in 1..Len(CalledLines), w \in WellFormedLines :
            (CalledLines[k] = w.text
                /\ w.a <= lastCall.rank /\ lastCall.rank <= w.b
                /\ \A j \in 1..(k - 1) : ~Contains(CalledTable[j], lastCall.rank))
            => lastCall.text = w.label

\* the case of C1: the second line of the dataset is the first whose range
\* contains the rank, and its label came back
C1_Witness ==
    /\ RankCall
    /\ Len(CalledLines) = 2
    /\ CalledLines[2] = MkLine(2, 3, <<"B">>)
    /\ lastCall.rank = 3
    /\ ~Contains(CalledTable[1], 3)
    /\ lastCall.text = <<"B">>

\* the table holds one record for each of the lines, in their order
TableOfLines(table, lines) ==
    /\ Len(table) = Len(lines)
    /\ \A k \in 1..Len(lines) :
           \E p \in {ParseLine(lines[k])} : p.ok /\ table[k] = p.rec

\* C2: every table holds the records of the lines it was loaded from in the
\* file's order, so did the table a call read, and allocate(rank) returned
\* the label of the record with the smallest index among those whose range
\* contains the rank.
C2_FirstMatchWins ==
    /\ \A i \in 1..Len(objects) :
           TableOfLines(objects[i].collegesData, loadedFrom[i])
    /\ RankCall => TableOfLines(CalledTable, CalledLines)
    /\ RankCall /\ Matching # {} =>
           lastCall.text = CalledTable[FirstOf(Matching)].college

\* the case of C2: two records with different labels contain the rank, and
\* the label of the earlier one came back
C2_Witness ==
    /\ RankCall
    /\ Cardinality(Matching) = 2
    /\ CalledTable[1].college # CalledTable[2].college
    /\ lastCall.text = CalledTable[1].college

\* C3: when no record's range contains the rank, allocate(rank) returned the
\* "no college" text, also for an empty table and for records whose start
\* exceeds their end; and it returned that text only then, or when the first
\* matching record's own label is that text.
C3_NoMatchSentinel ==
    RankCall =>
        /\ Matching = {} => lastCall.text = NoCollegeText
        /\ lastCall.text = NoCollegeText =>
               \/ Matching = {}
               \/ CalledTable[FirstOf(Matching)].college = NoCollegeText

\* the case of C3: the rank lies between the end and the start of a record
\* whose start exceeds its end, in no record's range, and the "no college"
\* text came back
C3_Witness ==
    /\ RankCall
    /\ Matching = {}
    /\ \E k \in 1..Len(CalledTable) :
           /\ CalledTable[k].rankStart > CalledTable[k].rankEnd
           /\ CalledTable[k].rankEnd <= lastCall.rank
           /\ lastCall.rank <= CalledTable[k].rankStart
    /\ lastCall.text = NoCollegeText

(***************************************************************************)
(* The instance counter and the frame of allocateCollege (ApiSpec).        *)
(***************************************************************************)
\* C4 as stated: after any sequence of RankIntervalStrategy constructions
\* totalInstances equals the number of them that succeeded; each of these
\* added its object to `objects`, a construction that failed added none.
C4_AsClaimed == totalInstances = Len(objects)

(***************************************************************************)
Count(s, c) == Cardinality({i \in 1..Len(s) : s[i] = c})

\* a sign or not, then digits only, with a value that fits an int
IsInteger(s) ==
    LET body == IF s # <<>> /\ Head(s) \in {"+", "-"} THEN Tail(s) ELSE s
    IN  /\ body # <<>>
        /\ \A i \in 1..Len(body) : IsDigit(body[i])
        /\ \/ Accumulate[body, 0, IntMax] # -1
           \/ s = <<"-", "2", "1", "4", "7", "4", "8", "3", "6", "4", "8">>

\* exactly one ':', exactly one '-' before it, an integer on either side
StrictlyWellFormed(s) ==
    /\ Count(s, ":") = 1
    /\ \E c \in 1..Len(s) :
           /\ s[c] = ":"
           /\ Count(SubSeq(s, 1, c - 1), "-") = 1
           /\ \E h \in 1..(c - 1) :
                  /\ s[h] = "-"
                  /\ IsInteger(SubSeq(s, 1, h - 1))
                  /\ IsInteger(SubSeq(s, h + 1, c - 1))

\* white space or not, a sign or not, then at least one digit; the digits
\* that follow each other from there have a value that fits an int; what
\* comes after them is anything
BeginsWithInteger(s) ==
    \E d \in 1..Len(s) :
        /\ IsDigit(s[d])
        /\ \A j \in 1..(d - 1) :
               IsSpace(s[j]) \/ (j = d - 1 /\ s[j] \in {"+", "-"})
        /\ \E e \in d..Len(s) :
               /\ \A j \in d..e : IsDigit(s[j])
               /\ e = Len(s) \/ ~IsDigit(s[e + 1])
               /\ \/ Accumulate[SubSeq(s, d, e), 0, IntMax] # -1
                  \/ /\ d > 1 /\ s[d - 1] = "-"
                     /\ Accumulate[SubSeq(s, d, e - 1), 0, IntMax \div 10]
                            = IntMax \div 10
                     /\ s[e] = "8"

\* a ':' somewhere, a '-' before the first ':', and either side of the first
\* '-' begins with an integer
LooselyWellFormed(s) ==
    \E c \in 1..Len(s) :
        /\ s[c] = ":"
        /\ \A j \in 1..(c - 1) : s[j] # ":"
        /\ \E h \in 1..(c - 1) :
               /\ s[h] = "-"
               /\ \A j \in 1..(h - 1) : s[j] # "-"
               /\ BeginsWithInteger(SubSeq(s, 1, h - 1))
               /\ BeginsWithInteger(SubSeq(s, h + 1, c - 1))

\* C5 as stated: a line is accepted if and only if it has exactly one ':',
\* exactly one '-' in the range before it, and an integer on either side of
\* the '-'.
C5_AsClaimed ==
    pc = "parsed" => (parsed.ok <=> StrictlyWellFormed(line))

\* C5 (amended): a line is accepted if and only if it has a ':', the text
\* before its first ':' has a '-', and the texts before the first '-' and
\* between it and the first ':' each begin (after white space and a sign, if
\* any) with digits whose value fits an int; every line with exactly one of
\* each separator and two integers is among these, and every other line
\* throws and yields no record.
C5_AcceptsFirstSeparators ==
    pc = "parsed" =>
        /\ parsed.ok <=> LooselyWellFormed(line)
        /\ StrictlyWellFormed(line) => parsed.ok
        /\ parsed.ok =>
               parsed.rec.college =
                   SubSeq(line, Find(line, ":") + 1, Len(line))
        /\ ~parsed.ok => DOMAIN parsed = {"ok", "what"}

\* the case of C5: a line with two ':' and two '-' in its range was accepted
C5_Witness ==
    /\ pc = "parsed"
    /\ parsed.ok
    /\ Count(line, ":") = 2
    /\ Count(SubSeq(line, 1, Find(line, ":")), "-") = 2

(***************************************************************************)
(* main (Spec, LiveSpec).                                                  *)
(***************************************************************************)
IsPrefix(p, s) == Len(p) <= Len(s) /\ SubSeq(s, 1, Len(p)) = p

\* the "Result: ..." and "Total instances ..." texts written so far
ResultWrites == SelectSeq(stdout, LAMBDA w : IsPrefix(ResultPrefix, w))

TotalWrites == SelectSeq(stdout, LAMBDA w : IsPrefix(TotalPrefix, w))

\* a step of main has failed: an exception is in flight or was reported
Failed == exception # None \/ stderr # <<>>

\* C6: once any step has failed, no "Result:" line and no "Total instances"
\* line has been or will be written; a run that has ended has written 0 or 3
\* "Result:" lines.
C6_NoPartialResults ==
    /\ Failed => ResultWrites = <<>> /\ TotalWrites = <<>>
    /\ pc = "exited" => Len(ResultWrites) \in {0, 3}

\* the case of C6: the run ended after the constructor threw on the dataset,
\* with both prompts and nothing else on standard output
C6_Witness ==
    /\ pc = "exited"
    /\ lastCtor = "failed"
    /\ stderr # <<>>
    /\ stdout = <<NamePrompt, RankPrompt>>

\* the invalid-rank error is in flight or was reported
RankInputFailed ==
    \/ exception = InvalidRankInput
    \/ \E i \in 1..Len(stderr) : stderr[i] = InvalidRankInput

\* C7: from the moment the invalid-rank error is raised, no
\* RankIntervalStrategy constructor has been entered, no table has been
\* built, and totalInstances is 0.
C7_RankErrorBeforeConstruction ==
    RankInputFailed =>
        /\ lastCtor = None
        /\ objects = <<>>
        /\ totalInstances = 0

\* the case of C7: the run ended on the invalid-rank error, with a dataset
\* that would have parsed
C7_Witness ==
    /\ pc = "exited"
    /\ stderr = <<InvalidRankInput>>
    /\ LoadCollegesData(OpenFile(projectFilePath)).ok

\* C8: a run in which no step failed has written, after the two prompts,
\* exactly the rank-interval result, "not eligible for round two", "not
\* eligible for round three", each as "Result: <text>", and then one "Total
\* instances of RankIntervalStrategy: 1", totalInstances being 1.
C8_SuccessfulOutput ==
    (pc = "exited" /\ ~Failed) =>
        /\ totalInstances = 1
        /\ Len(objects) = 1
        /\ ResultWrites =
               << ResultPrefix
                      \o RankAllocateCollege(objects[1].collegesData, userRank)
                      \o Endl,
                  ResultPrefix \o RoundTwoText \o Endl,
                  ResultPrefix \o RoundThreeText \o Endl >>
        /\ TotalWrites = << TotalPrefix \o <<"1">> \o Endl >>
        /\ stdout = <<NamePrompt, RankPrompt>> \o ResultWrites \o TotalWrites

\* the case of C8: a run without failure whose rank lies in a record of the
\* table
C8_Witness ==
    /\ pc = "exited"
    /\ ~Failed
    /\ Len(stdout) = 6
    /\ \E k \in 1..Len(objects[1].collegesData) :
           Contains(objects[1].collegesData[k], userRank)

\* C9: every run ends; it ends with status 0, either after all six steps
\* with nothing on standard error, or with exactly one message on standard
\* error; and after a failure main only reports and returns: nothing is read,
\* written to standard output, constructed or retried.
C9_TerminatesWithStatusZero ==
    /\ <>(pc = "exited")
    /\ [](pc = "exited" =>
              /\ exitStatus = 0
              /\ \/ stderr = <<>> /\ Len(ResultWrites) = 3 /\ Len(TotalWrites) = 1
                 \/ Len(stderr) = 1 /\ Len(ResultWrites) = 0 /\ Len(TotalWrites) = 0)
    /\ [][Failed =>
              /\ pc' \in {"return", "exited"}
              /\ UNCHANGED <<cin, stdout, objects, totalInstances, application,
                             lastCtor>>
              /\ Len(stderr') <= 1]_vars

\* the case of C9: a run that failed has ended with status 0 and one message
C9_Witness ==
    /\ pc = "exited"
    /\ exitStatus = 0
    /\ Len(stderr) = 1

====
